---- MODULE Spec2Model ----
(***************************************************************************)
(* A model of SketchRNN's sequence runners (sketch_rnn/lstm.py), its       *)
(* decoder, mixture and reconstruction loss (sketch_rnn/model.py) and its  *)
(* training step, training run and checkpoints (sketch_rnn/trainer.py).    *)
(*                                                                         *)
(* Numbers.  Tensors of floats are modelled in fixed point: the integer v  *)
(* stands for the real v / FixedPoint.  A [batch, hidden] tensor of the    *)
(* sequence runners is modelled for batch = hidden = input width = 1, so   *)
(* it is one number; a [T, ...] tensor is a sequence of T elements.  A     *)
(* mean is kept exact, as the pair [n |-> sum, d |-> number of elements].  *)
(***************************************************************************)
EXTENDS Integers, Sequences, FiniteSets, TLC

\* Longest sequence (time steps) of a sequence-runner call.
MaxT == 3
\* Fixed-point unit: the integer FixedPoint stands for 1.0.
FixedPoint == 4
\* Longest target sequence and largest batch of a ReconstructionLoss call.
MaxLossT == 2
MaxB == 2
\* Longest padded sequence of a batch given to Trainer.step.
MaxSeqLen == 3
\* Number of training-mode steps after which only evaluation steps are taken.
MaxTrainSteps == 2
\* Number of set_temperature calls made on one mixture.
MaxTempCalls == 2
\* Most epochs of a run of Trainer.train, and most batches of the training loader.
MaxEpochs == 3
MaxBatches == 2
\* Number of step, save and load calls made on a trainer outside a run.
MaxCheckpointOps == 5

VARIABLES
    \* ---- lstm.py: BidirLSTMLayer.directions[0].cell, directions[1].cell
    cellW,
    \* the arguments of the sequence runners' forward calls: the input tensor and
    \* the list of two initial states, one per direction
    lstmInput, lstmStates,
    \* the last forward call: which layer, and the (input, state) pairs it
    \* passed to self.cell, in call order
    lstmOp, cellCalls,
    \* what the last call of LSTMLayer or ReverseLSTMLayer returned, and what
    \* the last call of BidirLSTMLayer returned
    lstmOutputs, lstmOutState, bidirOutputs, bidirOutState,
    \* ---- model.py: the arguments of ReconstructionLoss.forward.  lossMask is
    \* mask, lossPen is target[:, :, 2:], lossQ is q_logits, and lossLog is
    \* torch.log(1e-5 + probs), probs being the mixture density at target[:, :, 0:2]
    lossMask, lossPen, lossLog, lossQ,
    \* what the last ReconstructionLoss.forward call computed
    lossOut,
    \* ---- trainer.py: Trainer.  hp is the HParams object; encoder and decoder
    \* hold the sub-network's parameters, their accumulated gradient and the
    \* train/eval mode flag; the optimizers hold Adam's state
    hp, eta_step, encoder, decoder, encoder_optimizer, decoder_optimizer,
    \* Trainer.step: the statement it is at, its arguments, its local variables,
    \* the statements of lines 243-252 it has executed, and what it returned
    stepPc, stepArgs, stepLocals, stepEvents, stepReturn,
    \* ---- model.py: BivariateGaussianMixture.  mixStorage is the memory of the
    \* tensors given to the constructor; mix is the object: each attribute is a
    \* tensor, a view of some storage.  mixOrig and mixTemps remember the values
    \* at construction and the temperatures set since; mixOp is the last method
    \* called and mixDist what the last get_distribution built
    mixStorage, mix, mixOrig, mixTemps, mixOp, mixDist,
    \* ---- model.py: DecoderRNN.  decW are its weights, decX and decZ the
    \* arguments x and z; decFull is what forward(x, z, None) returned, decSteps
    \* what the one-step calls forward(x[t:t+1], z, state) made so far returned
    decW, decX, decZ, decFull, decSteps,
    \* ---- trainer.py: Trainer.train.  trainPc is the statement the run is at and
    \* trainLocals the loop variables epoch and idx; sinkCalls are the calls
    \* wandb.log has received, trainEvents the operations the run has completed,
    \* files the checkpoint files of run_dir
    use_wandb, total_steps, learning_rate, trainPc, trainLocals, sinkCalls,
    trainEvents, files

lstmVars == <<cellW, lstmInput, lstmStates, lstmOp, cellCalls, lstmOutputs,
              lstmOutState, bidirOutputs, bidirOutState>>

lossVars == <<lossMask, lossPen, lossLog, lossQ, lossOut>>

trainerVars == <<hp, eta_step, encoder, decoder, encoder_optimizer,
                 decoder_optimizer, stepPc, stepArgs, stepLocals, stepEvents,
                 stepReturn>>

mixVars == <<mixStorage, mix, mixOrig, mixTemps, mixOp, mixDist>>

decVars == <<decW, decX, decZ, decFull, decSteps>>

loopVars == <<use_wandb, total_steps, learning_rate, trainPc, trainLocals,
              sinkCalls, trainEvents, files>>

vars == <<lstmVars, lossVars, trainerVars, mixVars, decVars, loopVars>>

\* The trainer's variables in the specifications that have no trainer.
TrainerUnused ==
    /\ hp = <<>> /\ eta_step = <<>> /\ encoder = <<>> /\ decoder = <<>>
    /\ encoder_optimizer = <<>> /\ decoder_optimizer = <<>>
    /\ stepPc = "idle" /\ stepArgs = <<>> /\ stepLocals = <<>>
    /\ stepEvents = <<>> /\ stepReturn = [called |-> FALSE]

\* The sequence runners' and the loss's variables where they are not used.
LSTMUnused ==
    /\ cellW = <<>> /\ lstmInput = <<>> /\ lstmStates = <<>> /\ lstmOp = "none"
    /\ lstmOutputs = <<>> /\ lstmOutState = <<>> /\ cellCalls = <<>>
    /\ bidirOutputs = <<>> /\ bidirOutState = <<>>

LossUnused ==
    /\ lossMask = <<>> /\ lossPen = <<>> /\ lossLog = <<>> /\ lossQ = <<>>
    /\ lossOut = [called |-> FALSE]

\* The mixture's, the decoder's and the training run's variables likewise.
MixtureUnused ==
    /\ mixStorage = <<>> /\ mix = <<>> /\ mixOrig = <<>> /\ mixTemps = <<>>
    /\ mixOp = "none" /\ mixDist = [called |-> FALSE]

DecoderUnused ==
    /\ decW = <<>> /\ decX = <<>> /\ decZ = 0 /\ decFull = [called |-> FALSE]
    /\ decSteps = <<>>

LoopUnused ==
    /\ use_wandb = FALSE /\ total_steps = 0 /\ learning_rate = <<>>
    /\ trainPc = "none" /\ trainLocals = <<>> /\ sinkCalls = <<>>
    /\ trainEvents = <<>> /\ files = {}

-----------------------------------------------------------------------------
(* lstm.py                                                                 *)

\* reverse(lst) = lst[::-1]
RECURSIVE reverse(_)
reverse(lst) == IF lst = <<>> THEN <<>> ELSE Append(reverse(Tail(lst)), Head(lst))

Clip(v, lo, hi) == IF v < lo THEN lo ELSE IF v > hi THEN hi ELSE v

\* Product of two fixed-point numbers.
Mul(a, b) == (a * b) \div FixedPoint

\* torch.sigmoid, by its piecewise-linear form clip(x/4 + 1/2, 0, 1): range [0, 1]
Sigmoid(x) == Clip(x \div 4 + FixedPoint \div 2, 0, FixedPoint)

\* torch.tanh, by its piecewise-linear form clip(x, -1, 1): range [-1, 1]
Tanh(x) == Clip(x, -FixedPoint, FixedPoint)

\* The parameters torch.randn may give a cell: one row per gate
\* (ingate, forgetgate, cellgate, outgate).
CellWeights ==
    { [weight_ih |-> <<4, -4, 8, 8>>, weight_hh |-> <<4, 8, -4, 4>>,
       bias_ih |-> <<2, 0, 1, 4>>, bias_hh |-> <<0, 2, 1, 0>>],
      [weight_ih |-> <<-8, 4, -4, 12>>, weight_hh |-> <<8, -4, 8, 4>>,
       bias_ih |-> <<1, 4, -2, 2>>, bias_hh |-> <<3, 0, 0, 2>>] }

\* LSTMCell.forward(input, state) -> hy, (hy, cy)
LSTMCell(w, input, state) ==
    LET hx == state[1]
        cx == state[2]
        gates == [k \in 1..4 |->
                     Mul(input, w.weight_ih[k]) + w.bias_ih[k]
                   + Mul(hx, w.weight_hh[k]) + w.bias_hh[k]]
        ingate == Sigmoid(gates[1])
        forgetgate == Sigmoid(gates[2])
        cellgate == Tanh(gates[3])
        outgate == Sigmoid(gates[4])
        cy == Mul(forgetgate, cx) + Mul(ingate, cellgate)
        hy == Mul(outgate, Tanh(cy))
    IN  [out |-> hy, state |-> <<hy, cy>>]

\* The loop of LSTMLayer.forward from iteration i on: out, state =
\* self.cell(inputs[i], state); outputs += [out].  calls records the arguments
\* of every self.cell call.
RECURSIVE LSTMLayerLoop(_, _, _, _, _, _)
LSTMLayerLoop(w, inputs, i, state, outs, calls) ==
    IF i > Len(inputs)
    THEN [outputs |-> outs, state |-> state, calls |-> calls]
    ELSE LET r == LSTMCell(w, inputs[i], state)
         IN  LSTMLayerLoop(w, inputs, i + 1, r.state, Append(outs, r.out),
                           Append(calls, [input |-> inputs[i], state |-> state]))

\* LSTMLayer.forward with the loop passing the caller's initial state to every
\* self.cell call instead of the state the previous call returned.
RECURSIVE LSTMLayerLoop_StaleState(_, _, _, _, _, _, _)
LSTMLayerLoop_StaleState(w, inputs, i, state0, state, outs, calls) ==
    IF i > Len(inputs)
    THEN [outputs |-> outs, state |-> state, calls |-> calls]
    ELSE LET r == LSTMCell(w, inputs[i], state0)
         IN  LSTMLayerLoop_StaleState(w, inputs, i + 1, state0, r.state,
                 Append(outs, r.out),
                 Append(calls, [input |-> inputs[i], state |-> state0]))

LSTMLayer_StaleState(w, input, state) ==
    LSTMLayerLoop_StaleState(w, input, 1, state, state, <<>>, <<>>)

\* LSTMLayer.forward(input, state) -> torch.stack(outputs), state
LSTMLayer(w, input, state) == LSTMLayerLoop(w, input, 1, state, <<>>, <<>>)

\* The loop of ReverseLSTMLayer.forward from iteration i on.
RECURSIVE ReverseLSTMLayerLoop(_, _, _, _, _, _)
ReverseLSTMLayerLoop(w, inputs, i, state, outs, calls) ==
    IF i > Len(inputs)
    THEN [outputs |-> outs, state |-> state, calls |-> calls]
    ELSE LET r == LSTMCell(w, inputs[i], state)
         IN  ReverseLSTMLayerLoop(w, inputs, i + 1, r.state, Append(outs, r.out),
                                  Append(calls, [input |-> inputs[i], state |-> state]))

\* ReverseLSTMLayer.forward returning torch.stack(outputs): the outputs are left
\* in processing order.
ReverseLSTMLayer_OutputsNotReversed(w, input, state) ==
    LET r == ReverseLSTMLayerLoop(w, reverse(input), 1, state, <<>>, <<>>)
    IN  [outputs |-> r.outputs, state |-> r.state, calls |-> r.calls]

\* ReverseLSTMLayer.forward(input, state) -> torch.stack(reverse(outputs)), state
ReverseLSTMLayer(w, input, state) ==
    LET r == ReverseLSTMLayerLoop(w, reverse(input), 1, state, <<>>, <<>>)
    IN  [outputs |-> reverse(r.outputs), state |-> r.state, calls |-> r.calls]

\* torch.cat([a, b], -1) of two [T, 1] tensors: step t holds <<a[t], b[t]>>
RECURSIVE Cat(_, _)
Cat(a, b) ==
    IF a = <<>> THEN <<>> ELSE <<<<Head(a), Head(b)>>>> \o Cat(Tail(a), Tail(b))

\* BidirLSTMLayer.forward(input, states) ->
\*     torch.cat(outputs, -1), (torch.stack(hidden), torch.stack(cell))
\* directions = [LSTMLayer, ReverseLSTMLayer]; output_states collects each
\* direction's out_state, a pair (hy, cy); "hidden, cell = output_states" names
\* its two elements, and torch.stack of a pair is the pair as a tensor.
BidirLSTMLayer(ws, input, states) ==
    LET fwd == LSTMLayer(ws[1], input, states[1])
        rev == ReverseLSTMLayer(ws[2], input, states[2])
        outs == <<fwd.outputs, rev.outputs>>
        output_states == <<fwd.state, rev.state>>
        hidden == output_states[1]
        cell == output_states[2]
    IN  [outputs |-> Cat(outs[1], outs[2]),
         state |-> <<hidden, cell>>,
         calls |-> fwd.calls \o rev.calls]

\* The inputs of the sequence runners: T steps, 1 <= T <= MaxT, one feature each.
InputValues == {-FixedPoint, 2, FixedPoint}
InputSeqs == UNION { [1..n -> InputValues] : n \in 1..MaxT }
\* Initial (hidden, memory) pairs a caller may pass.
InitialStates == { <<0, 0>>, <<2, -FixedPoint>> }

InitLSTM ==
    /\ cellW \in [1..2 -> CellWeights]
    /\ lstmInput \in InputSeqs
    /\ lstmStates \in [1..2 -> InitialStates]
    /\ lstmOp = "none"
    /\ lstmOutputs = <<>>
    /\ lstmOutState = <<>>
    /\ bidirOutputs = <<>>
    /\ bidirOutState = <<>>
    /\ cellCalls = <<>>
    /\ lossMask = <<>> /\ lossPen = <<>> /\ lossLog = <<>> /\ lossQ = <<>>
    /\ lossOut = [called |-> FALSE]
    /\ TrainerUnused /\ MixtureUnused /\ DecoderUnused /\ LoopUnused

\* directions[0].forward(input, states[0])
CallLSTMLayer ==
    \E r \in {LSTMLayer(cellW[1], lstmInput, lstmStates[1])} :
        /\ lstmOp' = "LSTMLayer"
        /\ lstmOutputs' = r.outputs
        /\ lstmOutState' = r.state
        /\ cellCalls' = r.calls
        /\ UNCHANGED <<cellW, lstmInput, lstmStates, bidirOutputs, bidirOutState,
                       lossVars, trainerVars, mixVars, decVars, loopVars>>

\* directions[1].forward(input, states[1])
CallReverseLSTMLayer ==
    \E r \in {ReverseLSTMLayer(cellW[2], lstmInput, lstmStates[2])} :
        /\ lstmOp' = "ReverseLSTMLayer"
        /\ lstmOutputs' = r.outputs
        /\ lstmOutState' = r.state
        /\ cellCalls' = r.calls
        /\ UNCHANGED <<cellW, lstmInput, lstmStates, bidirOutputs, bidirOutState,
                       lossVars, trainerVars, mixVars, decVars, loopVars>>

\* BidirLSTMLayer.forward(input, states)
CallBidirLSTMLayer ==
    \E r \in {BidirLSTMLayer(cellW, lstmInput, lstmStates)} :
        /\ lstmOp' = "BidirLSTMLayer"
        /\ bidirOutputs' = r.outputs
        /\ bidirOutState' = r.state
        /\ cellCalls' = r.calls
        /\ UNCHANGED <<cellW, lstmInput, lstmStates, lstmOutputs, lstmOutState,
                       lossVars, trainerVars, mixVars, decVars, loopVars>>

NextLSTM ==
    \/ CallLSTMLayer
    \/ CallReverseLSTMLayer
    \/ CallBidirLSTMLayer

SpecLSTM == InitLSTM /\ [][NextLSTM]_vars

-----------------------------------------------------------------------------
(* model.py: ReconstructionLoss                                            *)

\* A [rows, cols] tensor is a sequence of rows, each a sequence of cols numbers.
RECURSIVE SumSeq(_)
SumSeq(s) == IF s = <<>> THEN 0 ELSE Head(s) + SumSeq(Tail(s))

\* torch.sum over every element of a [rows, cols] tensor
RECURSIVE SumAll(_)
SumAll(t) == IF t = <<>> THEN 0 ELSE SumSeq(Head(t)) + SumAll(Tail(t))

\* Tensor.numel() of a [rows, cols] tensor
Numel(t) == IF t = <<>> THEN 0 ELSE Len(t) * Len(t[1])

\* The size two operands' sizes a and b broadcast to along one dimension;
\* 0 when they do not broadcast (the elementwise operator raises RuntimeError).
BroadcastDim(a, b) ==
    IF a = b THEN a ELSE IF a = 1 THEN b ELSE IF b = 1 THEN a ELSE 0

Broadcastable(x, y) ==
    /\ BroadcastDim(Len(x), Len(y)) # 0
    /\ BroadcastDim(Len(x[1]), Len(y[1])) # 0

\* x * y of two [rows, cols] tensors, with broadcasting
BroadcastMul(x, y) ==
    LET rows == BroadcastDim(Len(x), Len(y))
        cols == BroadcastDim(Len(x[1]), Len(y[1]))
        at(t, i, j) == t[IF Len(t) = 1 THEN 1 ELSE i][IF Len(t[1]) = 1 THEN 1 ELSE j]
    IN  [i \in 1..rows |-> [j \in 1..cols |-> at(x, i, j) * at(y, i, j)]]

\* torch.mean: the sum of all elements over their number, kept as a fraction
Mean(sum, numel) == [n |-> sum, d |-> numel]
Neg(r) == [n |-> -r.n, d |-> r.d]
\* a + b and a * b of two fractions; a = b
Add(a, b) == [n |-> a.n * b.d + b.n * a.d, d |-> a.d * b.d]
Times(a, b) == [n |-> a.n * b.n, d |-> a.d * b.d]
Same(a, b) == a.n * b.d = b.n * a.d

\* target[:, :, 2:] * q_logits, a [T, B, 3] tensor, as the [T, B * 3] tensor of
\* its elements (the same elements, the same number of them)
PenProducts(target_pen, q_logits) ==
    [t \in 1..Len(target_pen) |->
        [e \in 1..(Len(target_pen[t]) * 3) |->
            LET b == ((e - 1) \div 3) + 1
                k == ((e - 1) % 3) + 1
            IN  target_pen[t][b][k] * q_logits[t][b][k]]]

\* loss_stroke with the sum divided by the number of valid (mask = 1) positions
LossStroke_OverValidPositions(mask, log_probs) ==
    LET prod == BroadcastMul(mask, log_probs)
    IN  Neg(Mean(SumAll(prod), SumAll(mask)))

\* loss_stroke = -torch.mean(mask * torch.log(1e-5 + probs))
LossStroke(mask, log_probs) ==
    LET prod == BroadcastMul(mask, log_probs)
    IN  Neg(Mean(SumAll(prod), Numel(prod)))

\* loss_pen = -torch.mean(target[:, :, 2:] * q_logits)
LossPen(target_pen, q_logits) ==
    LET prod == PenProducts(target_pen, q_logits)
    IN  Neg(Mean(SumAll(prod), Numel(prod)))

\* ReconstructionLoss.forward(mask, target, dist, q_logits) -> loss_stroke + loss_pen
ReconstructionLoss(mask, target_pen, log_probs, q_logits) ==
    IF ~Broadcastable(mask, log_probs)
    THEN [called |-> TRUE, raised |-> TRUE]
    ELSE [called |-> TRUE, raised |-> FALSE,
          loss_stroke |-> LossStroke(mask, log_probs),
          loss_pen |-> LossPen(target_pen, q_logits),
          loss |-> Add(LossStroke(mask, log_probs), LossPen(target_pen, q_logits))]

\* The pen states (p1, p2, p3), one-hot
OneHot(k) == [j \in 1..3 |-> IF j = k THEN 1 ELSE 0]
\* Values of torch.log(1e-5 + probs): log(1e-5 + 1/(2 pi)) and log(1.0)
LogValues == {-7, 0}
\* Rows of q_logits: log-softmax of three logits
QLogitRows == { <<-1, -9, -9>>, <<-4, -4, -8>> }

\* The mask of a batch whose sequence b has len[b] valid steps out of rows
PrefixMask(rows, len) ==
    [t \in 1..rows |-> [b \in 1..Len(len) |-> IF t <= len[b] THEN 1 ELSE 0]]

\* The pen targets that go with a mask: class k at the valid steps, and the
\* padding class p3 = 1 after them
PenTargets(mask, k) ==
    [t \in 1..Len(mask) |->
        [b \in 1..Len(mask[t]) |-> IF mask[t][b] = 1 THEN OneHot(k) ELSE OneHot(3)]]

Uniform(rows, cols, v) == [t \in 1..rows |-> [b \in 1..cols |-> v]]

InitLoss ==
    /\ \E T \in 1..MaxLossT, B \in 1..MaxB :
          /\ \E len \in [1..B -> 0..T] : lossMask = PrefixMask(T, len)
          /\ lossLog \in [1..T -> [1..B -> LogValues]]
          /\ \E q \in QLogitRows : lossQ = Uniform(T, B, q)
    /\ \E k \in 1..2 : lossPen = PenTargets(lossMask, k)
    /\ lossOut = [called |-> FALSE]
    /\ cellW = <<>> /\ lstmInput = <<>> /\ lstmStates = <<>> /\ lstmOp = "none"
    /\ lstmOutputs = <<>> /\ lstmOutState = <<>> /\ cellCalls = <<>>
    /\ bidirOutputs = <<>> /\ bidirOutState = <<>>
    /\ TrainerUnused /\ MixtureUnused /\ DecoderUnused /\ LoopUnused

\* reconstruction_loss(mask, target, dist, q_logits)
CallReconstructionLoss ==
    /\ lossOut' = ReconstructionLoss(lossMask, lossPen, lossLog, lossQ)
    /\ UNCHANGED <<lossMask, lossPen, lossLog, lossQ, lstmVars, trainerVars,
                   mixVars, decVars, loopVars>>

NextLoss == CallReconstructionLoss

SpecLoss == InitLoss /\ [][NextLoss]_vars

-----------------------------------------------------------------------------
(* trainer.py: Trainer.step                                                *)

\* HParams.kl_div_loss_weight = 0.5, HParams.eta_min = 1e-2, as fractions
kl_div_loss_weight == [n |-> 1, d |-> 2]
eta_min == [n |-> 1, d |-> 100]
\* HParams.grad_clip = 1.
grad_clip == FixedPoint

\* Tensor.transpose(0, 1) of a shape
Transpose01(shape) == <<shape[2], shape[1]>> \o SubSeq(shape, 3, Len(shape))

\* The pen targets of the rows target rows data[1:], for sequences of len[b]
\* valid steps: class k at the valid steps, the padding class p3 after them
TargetPen(rows, len, k) ==
    [t \in 1..rows |->
        [b \in 1..Len(len) |-> IF t <= len[b] THEN OneHot(k) ELSE OneHot(3)]]

\* "if self.hp.use_eta: kl_loss *= self.eta_step"
ScaleKL(kl_loss, use_eta, eta) == IF use_eta THEN Times(kl_loss, eta) ELSE kl_loss

\* The total loss without the weight of the KL term
TotalLoss_Unweighted(reconstruction_loss, kl_loss) ==
    Add(reconstruction_loss, kl_loss)

\* loss = reconstruction_loss + self.hp.kl_div_loss_weight * kl_loss
TotalLoss(reconstruction_loss, kl_loss) ==
    Add(reconstruction_loss, Times(kl_div_loss_weight, kl_loss))

\* Lines 211-238 of Trainer.step on a batch: what the forward pass leaves in the
\* local variables.  The networks' outputs are the batch's fields log_prob
\* (torch.log(1e-5 + probs) at every position), q_row (every row of q_logits)
\* and kl (the value of self.kl_div_loss(sigma_hat, mu)).
StepForward(batch, use_eta, eta) ==
    LET data == Transpose01(batch.data_shape)
        mask_shape == Transpose01(batch.mask_shape)
        batch_items == data[1]
        mask == PrefixMask(mask_shape[1], batch.len)
        \* inputs = data[:-1] and the targets data[1:] have data.shape[0] - 1 rows
        rows == data[1] - 1
        kl_loss == ScaleKL([n |-> batch.kl, d |-> 1], use_eta, eta)
        rl == ReconstructionLoss(mask,
                                 TargetPen(rows, batch.len, batch.pen),
                                 Uniform(rows, data[2], batch.log_prob),
                                 Uniform(rows, data[2], batch.q_row))
    IN  IF rl.raised
        THEN [raised |-> TRUE]
        ELSE [raised |-> FALSE,
              loss |-> TotalLoss(rl.loss, kl_loss),
              reconstruction_loss |-> rl.loss,
              kl_loss |-> kl_loss,
              batch_items |-> batch_items]

\* The forward pass followed by the update whatever the mode
AfterForward_AlwaysUpdates(is_training) == "zero_grad_encoder"

\* "if is_training:" -- the statement after the forward pass
AfterForward(is_training) ==
    IF is_training THEN "zero_grad_encoder" ELSE "return"

\* Lines 243-252 with the optimizers stepped before the gradients are clipped
AfterStatement_StepBeforeClip(pc) ==
    CASE pc = "zero_grad_encoder" -> "zero_grad_decoder"
      [] pc = "zero_grad_decoder" -> "backward"
      [] pc = "backward" -> "step_encoder"
      [] pc = "step_encoder" -> "step_decoder"
      [] pc = "step_decoder" -> "clip_encoder"
      [] pc = "clip_encoder" -> "clip_decoder"
      [] pc = "clip_decoder" -> "return"

\* The statement after each of lines 243-252
AfterStatement(pc) ==
    CASE pc = "zero_grad_encoder" -> "zero_grad_decoder"
      [] pc = "zero_grad_decoder" -> "backward"
      [] pc = "backward" -> "clip_encoder"
      [] pc = "clip_encoder" -> "clip_decoder"
      [] pc = "clip_decoder" -> "step_encoder"
      [] pc = "step_encoder" -> "step_decoder"
      [] pc = "step_decoder" -> "return"

\* nn.utils.clip_grad_norm_(parameters, max_norm): scales the gradient so that
\* its norm is at most max_norm
ClipGradNorm(grad, max_norm) == Clip(grad, -max_norm, max_norm)

\* optim.Adam.step(): one update of the parameters by their gradient; the
\* optimizer counts the update and keeps the gradient's running average
OptimizerStep(net, opt) ==
    [net |-> [net EXCEPT !.params = net.params - net.grad],
     opt |-> [opt EXCEPT !.t = opt.t + 1, !.exp_avg = net.grad]]

\* The batches of the data loaders: data of shape [B, T, 5] with T >= 2, and a
\* mask of shape [B, T] or, one step shorter, [B, T - 1]; every sequence of the
\* batch has len valid steps.
Batches ==
    { [data_shape |-> <<B, T, 5>>, mask_shape |-> <<B, Tm>>,
       len |-> [b \in 1..B |-> n], pen |-> 1, log_prob |-> v,
       q_row |-> <<-1, -9, -9>>, kl |-> kl] :
         B \in 1..MaxB, T \in 2..MaxSeqLen, Tm \in 1..MaxSeqLen,
         n \in 1..MaxSeqLen, v \in LogValues, kl \in {0, 6} }

ValidBatch(b) ==
    /\ b.mask_shape[2] \in {b.data_shape[2] - 1, b.data_shape[2]}
    /\ b.len[1] \in {1, b.mask_shape[2]}

\* The gradients loss.backward() may add to the parameters of a sub-network
GradValues == {-8, 3}

Init ==
    /\ hp \in [use_eta : BOOLEAN]
    /\ eta_step = IF hp.use_eta THEN eta_min ELSE [n |-> 1, d |-> 1]
    /\ encoder = [params |-> 0, grad |-> 0, training |-> TRUE]
    /\ decoder = [params |-> 0, grad |-> 0, training |-> TRUE]
    /\ encoder_optimizer = [t |-> 0, exp_avg |-> 0]
    /\ decoder_optimizer = [t |-> 0, exp_avg |-> 0]
    /\ stepPc = "idle"
    /\ stepArgs = [is_training |-> FALSE]
    /\ stepLocals = [raised |-> FALSE]
    /\ stepEvents = <<>>
    /\ stepReturn = [called |-> FALSE]
    /\ cellW = <<>> /\ lstmInput = <<>> /\ lstmStates = <<>> /\ lstmOp = "none"
    /\ lstmOutputs = <<>> /\ lstmOutState = <<>> /\ cellCalls = <<>>
    /\ bidirOutputs = <<>> /\ bidirOutState = <<>>
    /\ lossMask = <<>> /\ lossPen = <<>> /\ lossLog = <<>> /\ lossQ = <<>>
    /\ lossOut = [called |-> FALSE]
    /\ MixtureUnused /\ DecoderUnused /\ LoopUnused

\* Trainer.step(batch, is_training), lines 211-238.  An exception of the loss
\* ends the call.
Step ==
    /\ stepPc = "idle"
    /\ \E batch \in Batches, is_training \in BOOLEAN :
          /\ ValidBatch(batch)
          /\ is_training => encoder_optimizer.t < MaxTrainSteps
          /\ \E f \in {StepForward(batch, hp.use_eta, eta_step)} :
                /\ stepArgs' = [batch |-> batch, is_training |-> is_training]
                /\ encoder' = [encoder EXCEPT !.training = is_training]
                /\ decoder' = [decoder EXCEPT !.training = is_training]
                /\ stepLocals' = f
                /\ stepEvents' = <<>>
                /\ IF f.raised
                   THEN /\ stepPc' = "idle"
                        /\ stepReturn' = [called |-> TRUE, raised |-> TRUE]
                   ELSE /\ stepPc' = AfterForward(is_training)
                        /\ stepReturn' = [called |-> FALSE]
    /\ UNCHANGED <<hp, eta_step, encoder_optimizer, decoder_optimizer,
                   lstmVars, lossVars,
                   mixVars, decVars, loopVars>>

\* self.encoder_optimizer.zero_grad()
ZeroGradEncoder ==
    /\ stepPc = "zero_grad_encoder"
    /\ encoder' = [encoder EXCEPT !.grad = 0]
    /\ stepEvents' = Append(stepEvents, stepPc)
    /\ stepPc' = AfterStatement(stepPc)
    /\ UNCHANGED <<hp, eta_step, decoder, encoder_optimizer, decoder_optimizer,
                   stepArgs, stepLocals, stepReturn, lstmVars, lossVars,
                   mixVars, decVars, loopVars>>

\* self.decoder_optimizer.zero_grad()
ZeroGradDecoder ==
    /\ stepPc = "zero_grad_decoder"
    /\ decoder' = [decoder EXCEPT !.grad = 0]
    /\ stepEvents' = Append(stepEvents, stepPc)
    /\ stepPc' = AfterStatement(stepPc)
    /\ UNCHANGED <<hp, eta_step, encoder, encoder_optimizer, decoder_optimizer,
                   stepArgs, stepLocals, stepReturn, lstmVars, lossVars,
                   mixVars, decVars, loopVars>>

\* loss.backward(): adds the gradient of the loss to both sub-networks' .grad
Backward ==
    /\ stepPc = "backward"
    /\ \E g \in GradValues :
          /\ encoder' = [encoder EXCEPT !.grad = @ + g]
          /\ decoder' = [decoder EXCEPT !.grad = @ - g]
    /\ stepEvents' = Append(stepEvents, stepPc)
    /\ stepPc' = AfterStatement(stepPc)
    /\ UNCHANGED <<hp, eta_step, encoder_optimizer, decoder_optimizer,
                   stepArgs, stepLocals, stepReturn, lstmVars, lossVars,
                   mixVars, decVars, loopVars>>

\* nn.utils.clip_grad_norm_(self.encoder.parameters(), self.hp.grad_clip)
ClipEncoder ==
    /\ stepPc = "clip_encoder"
    /\ encoder' = [encoder EXCEPT !.grad = ClipGradNorm(@, grad_clip)]
    /\ stepEvents' = Append(stepEvents, stepPc)
    /\ stepPc' = AfterStatement(stepPc)
    /\ UNCHANGED <<hp, eta_step, decoder, encoder_optimizer, decoder_optimizer,
                   stepArgs, stepLocals, stepReturn, lstmVars, lossVars,
                   mixVars, decVars, loopVars>>

\* nn.utils.clip_grad_norm_(self.decoder.parameters(), self.hp.grad_clip)
ClipDecoder ==
    /\ stepPc = "clip_decoder"
    /\ decoder' = [decoder EXCEPT !.grad = ClipGradNorm(@, grad_clip)]
    /\ stepEvents' = Append(stepEvents, stepPc)
    /\ stepPc' = AfterStatement(stepPc)
    /\ UNCHANGED <<hp, eta_step, encoder, encoder_optimizer, decoder_optimizer,
                   stepArgs, stepLocals, stepReturn, lstmVars, lossVars,
                   mixVars, decVars, loopVars>>

\* self.encoder_optimizer.step()
StepEncoderOptimizer ==
    /\ stepPc = "step_encoder"
    /\ \E u \in {OptimizerStep(encoder, encoder_optimizer)} :
          /\ encoder' = u.net
          /\ encoder_optimizer' = u.opt
    /\ stepEvents' = Append(stepEvents, stepPc)
    /\ stepPc' = AfterStatement(stepPc)
    /\ UNCHANGED <<hp, eta_step, decoder, decoder_optimizer,
                   stepArgs, stepLocals, stepReturn, lstmVars, lossVars,
                   mixVars, decVars, loopVars>>

\* self.decoder_optimizer.step()
StepDecoderOptimizer ==
    /\ stepPc = "step_decoder"
    /\ \E u \in {OptimizerStep(decoder, decoder_optimizer)} :
          /\ decoder' = u.net
          /\ decoder_optimizer' = u.opt
    /\ stepEvents' = Append(stepEvents, stepPc)
    /\ stepPc' = AfterStatement(stepPc)
    /\ UNCHANGED <<hp, eta_step, encoder, encoder_optimizer,
                   stepArgs, stepLocals, stepReturn, lstmVars, lossVars,
                   mixVars, decVars, loopVars>>

\* return loss.item(), reconstruction_loss.item(), kl_loss.item(), batch_items
StepReturn ==
    /\ stepPc = "return"
    /\ stepReturn' = [called |-> TRUE, raised |-> FALSE,
                      loss |-> stepLocals.loss,
                      reconstruction_loss |-> stepLocals.reconstruction_loss,
                      kl_loss |-> stepLocals.kl_loss,
                      batch_items |-> stepLocals.batch_items]
    /\ stepPc' = "idle"
    /\ UNCHANGED <<hp, eta_step, encoder, decoder, encoder_optimizer,
                   decoder_optimizer, stepArgs, stepLocals, stepEvents,
                   lstmVars, lossVars,
                   mixVars, decVars, loopVars>>

Next ==
    \/ Step
    \/ ZeroGradEncoder
    \/ ZeroGradDecoder
    \/ Backward
    \/ ClipEncoder
    \/ ClipDecoder
    \/ StepEncoderOptimizer
    \/ StepDecoderOptimizer
    \/ StepReturn

Spec == Init /\ [][Next]_vars

-----------------------------------------------------------------------------
(* model.py: BivariateGaussianMixture                                      *)

\* Exact arithmetic on fractions [n, d] kept in lowest terms with d > 0.
RECURSIVE GCD(_, _)
GCD(a, b) == IF b = 0 THEN a ELSE GCD(b, a % b)

Abs(v) == IF v < 0 THEN -v ELSE v

Frac(n, d) ==
    LET g == GCD(Abs(n), Abs(d))
        s == IF d < 0 THEN -1 ELSE 1
    IN  [n |-> s * (n \div g), d |-> s * (d \div g)]

\* a * b, cancelling common factors before multiplying
Prod(a, b) ==
    LET g1 == GCD(Abs(a.n), b.d)
        g2 == GCD(Abs(b.n), a.d)
    IN  [n |-> (a.n \div g1) * (b.n \div g2), d |-> (a.d \div g2) * (b.d \div g1)]

\* a / b for b # 0
Quot(a, b) == Prod(a, Frac(b.d, b.n))

\* a > b, for fractions in lowest terms, by their continued fractions
RECURSIVE RatioGreater(_, _, _, _)
RatioGreater(n1, d1, n2, d2) ==
    IF n1 \div d1 # n2 \div d2 THEN n1 \div d1 > n2 \div d2
    ELSE IF n1 % d1 = 0 THEN FALSE
    ELSE IF n2 % d2 = 0 THEN TRUE
    ELSE RatioGreater(d2, n2 % d2, d1, n1 % d1)

Greater(a, b) ==
    IF a.n >= 0 /\ b.n >= 0 THEN RatioGreater(a.n, a.d, b.n, b.d)
    ELSE IF a.n >= 0 THEN TRUE
    ELSE IF b.n >= 0 THEN FALSE
    ELSE RatioGreater(-b.n, b.d, -a.n, a.d)

\* a < b
Less(a, b) == Greater(b, a)

\* math.sqrt of a float that is the square of a fraction
Sqrt(t) ==
    [n |-> CHOOSE k \in 0..t.n : k * k = t.n, d |-> CHOOSE k \in 1..t.d : k * k = t.d]

\* torch.clamp_min(v, lo) and torch.clamp(v, lo, hi) of one element
ClampMin(v, lo) == IF Less(v, lo) THEN lo ELSE v
ClampFrac(v, lo, hi) == IF Less(v, lo) THEN lo ELSE IF Less(hi, v) THEN hi ELSE v

\* The floor 1e-5 of get_distribution.  sigma_x and sigma_y are kept in units of
\* 1e-5 (the fraction q stands for q * 1e-5), the covariances in units of 1e-10.
sigma_floor == [n |-> 1, d |-> 1]
\* 1 - 1e-5, the bound of rho_xy in get_distribution
rho_bound == [n |-> 99999, d |-> 100000]

\* A tensor is a view [storage, offset, size] of a storage; its elements
TensorRead(storage, t) == [i \in 1..t.size |-> storage[t.storage][t.offset + i]]

\* An in-place operation on a tensor writes its elements into its storage
TensorWrite(storage, t, vals) ==
    [storage EXCEPT ![t.storage] =
        [j \in 1..Len(@) |->
            IF j > t.offset /\ j <= t.offset + t.size THEN vals[j - t.offset] ELSE @[j]]]

\* set_temperature with the standard deviations multiplied by the temperature
SetTemperature_SigmaByTemperature(storage, self, temperature) ==
    LET s1 == TensorWrite(storage, self.pi_logits,
                  [i \in 1..self.pi_logits.size |->
                      Quot(TensorRead(storage, self.pi_logits)[i], temperature)])
        s2 == TensorWrite(s1, self.sigma_x,
                  [i \in 1..self.sigma_x.size |->
                      Prod(TensorRead(s1, self.sigma_x)[i], temperature)])
    IN  TensorWrite(s2, self.sigma_y,
            [i \in 1..self.sigma_y.size |->
                Prod(TensorRead(s2, self.sigma_y)[i], temperature)])

\* BivariateGaussianMixture.set_temperature(temperature): the storage after
\*     self.pi_logits /= temperature
\*     self.sigma_x *= math.sqrt(temperature)
\*     self.sigma_y *= math.sqrt(temperature)
SetTemperature(storage, self, temperature) ==
    LET s1 == TensorWrite(storage, self.pi_logits,
                  [i \in 1..self.pi_logits.size |->
                      Quot(TensorRead(storage, self.pi_logits)[i], temperature)])
        s2 == TensorWrite(s1, self.sigma_x,
                  [i \in 1..self.sigma_x.size |->
                      Prod(TensorRead(s1, self.sigma_x)[i], Sqrt(temperature))])
    IN  TensorWrite(s2, self.sigma_y,
            [i \in 1..self.sigma_y.size |->
                Prod(TensorRead(s2, self.sigma_y)[i], Sqrt(temperature))])

\* get_distribution building the covariances from the stored rho_xy, unclamped
GetDistribution_RhoNotClamped(storage, self) ==
    LET sigma_x == [i \in 1..self.sigma_x.size |->
                       ClampMin(TensorRead(storage, self.sigma_x)[i], sigma_floor)]
        sigma_y == [i \in 1..self.sigma_y.size |->
                       ClampMin(TensorRead(storage, self.sigma_y)[i], sigma_floor)]
        rho_xy == TensorRead(storage, self.rho_xy)
        mu_x == TensorRead(storage, self.mu_x)
        mu_y == TensorRead(storage, self.mu_y)
    IN  [sigma_x |-> sigma_x, sigma_y |-> sigma_y, rho_xy |-> rho_xy,
         mean |-> [i \in 1..self.mu_x.size |-> <<mu_x[i], mu_y[i]>>],
         cov |-> [i \in 1..self.sigma_y.size |->
                    << <<Prod(sigma_x[i], sigma_x[i]),
                         Prod(Prod(rho_xy[i], sigma_x[i]), sigma_y[i])>>,
                       <<Prod(Prod(rho_xy[i], sigma_x[i]), sigma_y[i]),
                         Prod(sigma_y[i], sigma_y[i])>> >>],
         logits |-> TensorRead(storage, self.pi_logits)]

\* BivariateGaussianMixture.get_distribution(): the clamped locals sigma_x,
\* sigma_y and rho_xy, the means and the 2x2 covariance matrices given to
\* MultivariateNormal, and the logits given to Categorical
GetDistribution(storage, self) ==
    LET sigma_x == [i \in 1..self.sigma_x.size |->
                       ClampMin(TensorRead(storage, self.sigma_x)[i], sigma_floor)]
        sigma_y == [i \in 1..self.sigma_y.size |->
                       ClampMin(TensorRead(storage, self.sigma_y)[i], sigma_floor)]
        rho_xy == [i \in 1..self.rho_xy.size |->
                      ClampFrac(TensorRead(storage, self.rho_xy)[i],
                                Neg(rho_bound), rho_bound)]
        mu_x == TensorRead(storage, self.mu_x)
        mu_y == TensorRead(storage, self.mu_y)
    IN  [sigma_x |-> sigma_x, sigma_y |-> sigma_y, rho_xy |-> rho_xy,
         mean |-> [i \in 1..self.mu_x.size |-> <<mu_x[i], mu_y[i]>>],
         cov |-> [i \in 1..self.sigma_y.size |->
                    << <<Prod(sigma_x[i], sigma_x[i]),
                         Prod(Prod(rho_xy[i], sigma_x[i]), sigma_y[i])>>,
                       <<Prod(Prod(rho_xy[i], sigma_x[i]), sigma_y[i]),
                         Prod(sigma_y[i], sigma_y[i])>> >>],
         logits |-> TensorRead(storage, self.pi_logits)]

\* The integer v as a fraction, elementwise
Whole(s) == [i \in 1..Len(s) |-> [n |-> s[i], d |-> 1]]

\* The parameters of a mixture of two components.  Standard deviations may be
\* negative, zero, below or at the floor; correlations at or beyond +1 and -1.
PiLogitsValues == { Whole(<<0, -3>>), Whole(<<2, 1>>) }
MuXValues == { Whole(<<1, -2>>) }
MuYValues == { Whole(<<0, 5>>) }
SigmaXValues == { Whole(<<-2, 1>>), Whole(<<0, 3>>), <<[n |-> 1, d |-> 2], [n |-> 2, d |-> 1]>> }
SigmaYValues == { Whole(<<1, 0>>), Whole(<<3, 3>>) }
RhoXYValues ==
    { Whole(<<1, -1>>),
      <<[n |-> -3, d |-> 2], [n |-> 0, d |-> 1]>>,
      <<rho_bound, [n |-> 1, d |-> 2]>>,
      <<Neg(rho_bound), [n |-> 2, d |-> 1]>> }

\* The temperatures passed to set_temperature
Temperatures == { [n |-> 1, d |-> 4], [n |-> 1, d |-> 1], [n |-> 4, d |-> 1] }

\* BivariateGaussianMixture(pi_logits, mu_x, mu_y, sigma_x, sigma_y, rho_xy): the
\* object keeps the tensors it is given.  As in DecoderRNN.forward, pi_logits,
\* mu_x and mu_y are the first three of the six views torch.split makes of one
\* tensor (storage 1), and sigma_x, sigma_y and rho_xy are tensors of their own.
InitMixture ==
    /\ \E pi \in PiLogitsValues, mx \in MuXValues, my \in MuYValues,
          sx \in SigmaXValues, sy \in SigmaYValues, rho \in RhoXYValues :
          /\ mixStorage = << pi \o mx \o my \o Whole(<<0, 0>>) \o Whole(<<0, 0>>)
                                \o Whole(<<0, 0>>),
                             sx, sy, rho >>
          /\ mix = [pi_logits |-> [storage |-> 1, offset |-> 0, size |-> Len(pi)],
                    mu_x |-> [storage |-> 1, offset |-> Len(pi), size |-> Len(mx)],
                    mu_y |-> [storage |-> 1, offset |-> Len(pi) + Len(mx),
                              size |-> Len(my)],
                    sigma_x |-> [storage |-> 2, offset |-> 0, size |-> Len(sx)],
                    sigma_y |-> [storage |-> 3, offset |-> 0, size |-> Len(sy)],
                    rho_xy |-> [storage |-> 4, offset |-> 0, size |-> Len(rho)]]
    /\ mixOrig = [storage |-> mixStorage, self |-> mix]
    /\ mixTemps = <<>>
    /\ mixOp = "none"
    /\ mixDist = [called |-> FALSE]
    /\ LSTMUnused /\ LossUnused /\ TrainerUnused /\ DecoderUnused /\ LoopUnused

\* dist.set_temperature(temperature)
CallSetTemperature ==
    /\ Len(mixTemps) < MaxTempCalls
    /\ \E temperature \in Temperatures :
          /\ mixStorage' = SetTemperature(mixStorage, mix, temperature)
          /\ mixTemps' = Append(mixTemps, temperature)
    /\ mixOp' = "set_temperature"
    /\ UNCHANGED <<mix, mixOrig, mixDist, lstmVars, lossVars, trainerVars,
                   decVars, loopVars>>

\* dist.get_distribution()
CallGetDistribution ==
    /\ mixDist' = [called |-> TRUE, dist |-> GetDistribution(mixStorage, mix)]
    /\ mixOp' = "get_distribution"
    /\ UNCHANGED <<mixStorage, mix, mixOrig, mixTemps, lstmVars, lossVars,
                   trainerVars, decVars, loopVars>>

NextMixture ==
    \/ CallSetTemperature
    \/ CallGetDistribution

SpecMixture == InitMixture /\ [][NextMixture]_vars

-----------------------------------------------------------------------------
(* model.py: DecoderRNN                                                    *)

\* torch.exp, by the piecewise-linear form max(1 + x, smallest positive number)
Exp(x) == IF FixedPoint + x < 1 THEN 1 ELSE FixedPoint + x

\* nn.Linear on one feature: one row [w, b] per output feature
Linear(rows, v) == [k \in 1..Len(rows) |-> Mul(v, rows[k].w) + rows[k].b]

Max3(l) ==
    IF l[1] >= l[2] /\ l[1] >= l[3] THEN l[1] ELSE IF l[2] >= l[3] THEN l[2] ELSE l[3]

\* nn.LogSoftmax(-1) of three logits, the log of the sum of the exponentials
\* taken as the largest logit
LogSoftmax(l) == [k \in 1..3 |-> l[k] - Max3(l)]

\* The state argument None, and a supplied pair (h, c)
None == [none |-> TRUE]
Some(state) == [none |-> FALSE, h |-> state[1], c |-> state[2]]

\* h, c = torch.split(torch.tanh(self.init_state(z)), self.dec_hidden_size, 1)
InitialState(w, z) ==
    LET hc == Linear(w.init_state, z)
    IN  <<Tanh(hc[1]), Tanh(hc[2])>>

\* DecoderRNN.forward deriving the initial state from z whatever state is passed
DecoderForward_StateIgnored(w, x, z, state) ==
    LET state0 == InitialState(w, z)
        run == LSTMLayer(w.lstm, x, state0)
        params(t) == Linear(w.mixtures, run.outputs[t])
    IN  [dist |-> [t \in 1..Len(x) |->
                      [pi_logits |-> params(t)[1], mu_x |-> params(t)[2],
                       mu_y |-> params(t)[3], sigma_x |-> Exp(params(t)[4]),
                       sigma_y |-> Exp(params(t)[5]), rho_xy |-> Tanh(params(t)[6])]],
         q_logits |-> [t \in 1..Len(x) |-> LogSoftmax(Linear(w.q_head, run.outputs[t]))],
         state |-> run.state,
         calls |-> run.calls]

\* DecoderRNN.forward(x, z, state) -> dist, q_logits, state, for one
\* distribution; self.lstm runs the recurrence of LSTMLayer.  calls are the
\* (input, state) pairs self.lstm ran its steps on.
DecoderForward(w, x, z, state) ==
    LET state0 == IF state.none THEN InitialState(w, z) ELSE <<state.h, state.c>>
        run == LSTMLayer(w.lstm, x, state0)
        params(t) == Linear(w.mixtures, run.outputs[t])
    IN  [dist |-> [t \in 1..Len(x) |->
                      [pi_logits |-> params(t)[1], mu_x |-> params(t)[2],
                       mu_y |-> params(t)[3], sigma_x |-> Exp(params(t)[4]),
                       sigma_y |-> Exp(params(t)[5]), rho_xy |-> Tanh(params(t)[6])]],
         q_logits |-> [t \in 1..Len(x) |-> LogSoftmax(Linear(w.q_head, run.outputs[t]))],
         state |-> run.state,
         calls |-> run.calls]

\* The weights of a decoder: those of its LSTM, of init_state, of mixtures (one
\* row for each of the six parameters) and of q_head
DecoderWeights ==
    { [lstm |-> l,
       init_state |-> <<[w |-> 8, b |-> 1], [w |-> -4, b |-> 2]>>,
       mixtures |-> <<[w |-> 4, b |-> 0], [w |-> 8, b |-> -1], [w |-> -8, b |-> 2],
                      [w |-> 12, b |-> -2], [w |-> -4, b |-> 1], [w |-> 16, b |-> 0]>>,
       q_head |-> <<[w |-> 8, b |-> 0], [w |-> -8, b |-> 1], [w |-> 4, b |-> -3]>>] :
      l \in CellWeights }

\* The latent codes z
LatentCodes == {-FixedPoint, 3}

InitDecoder ==
    /\ decW \in DecoderWeights
    /\ decX \in InputSeqs
    /\ decZ \in LatentCodes
    /\ decFull = [called |-> FALSE]
    /\ decSteps = <<>>
    /\ LSTMUnused /\ LossUnused /\ TrainerUnused /\ MixtureUnused /\ LoopUnused

\* self.decoder(x, z, None) on the whole input
CallDecoderAllSteps ==
    /\ ~decFull.called
    /\ decFull' = [called |-> TRUE, ret |-> DecoderForward(decW, decX, decZ, None)]
    /\ UNCHANGED <<decW, decX, decZ, decSteps, lstmVars, lossVars, trainerVars,
                   mixVars, loopVars>>

\* The next of the one-step calls: self.decoder(x[t:t+1], z, state) where state
\* is None for the first and the state the previous call returned afterwards
CallDecoderOneStep ==
    /\ Len(decSteps) < Len(decX)
    /\ \E t \in {Len(decSteps) + 1} :
       \E state \in {IF t = 1 THEN None ELSE Some(decSteps[t - 1].ret.state)} :
          decSteps' = Append(decSteps,
                             [state |-> state,
                              ret |-> DecoderForward(decW, <<decX[t]>>, decZ, state)])
    /\ UNCHANGED <<decW, decX, decZ, decFull, lstmVars, lossVars, trainerVars,
                   mixVars, loopVars>>

NextDecoder ==
    \/ CallDecoderAllSteps
    \/ CallDecoderOneStep

SpecDecoder == InitDecoder /\ [][NextDecoder]_vars

-----------------------------------------------------------------------------
(* trainer.py: Trainer.train                                               *)

\* HParams.eta_R = 0.99995 and HParams.min_lr = 1e-5
eta_R == [n |-> 99995, d |-> 100000]
min_lr == [n |-> 1, d |-> 100000]

\* self.run_id, fixed when the Trainer is constructed: seven decimal digits
run_id == <<0, 4, 1, 7, 2, 9, 3>>

\* The decimal digits of n >= 0, and the format specification 05d: at least
\* five digits, zeros in front
RECURSIVE Digits(_)
Digits(n) == IF n < 10 THEN <<n>> ELSE Append(Digits(n \div 10), n % 10)

Format05d(n) ==
    LET ds == Digits(n)
    IN  IF Len(ds) >= 5 THEN ds
        ELSE [i \in 1..5 |-> IF i <= 5 - Len(ds) THEN 0 ELSE ds[i - (5 - Len(ds))]]

\* The path of a checkpoint file without the epoch in its name
CheckpointPath_WithoutEpoch(epoch, net) ==
    <<run_id, "runid-", run_id, "_", net, ".pth">>

\* Path(self.run_dir) / f'runid-{self.run_id}_epoch-{epoch:05d}_{net}.pth'
CheckpointPath(epoch, net) ==
    <<run_id, "runid-", run_id, "_epoch-", Format05d(epoch), "_", net, ".pth">>

\* torch.save(obj, path): the file at path holds obj, whatever it held before
TorchSave(fs, obj, path) ==
    {f \in fs : f.path # path} \cup {[path |-> path, content |-> obj]}

\* nn.Module.state_dict(): the parameters, without gradients or mode
StateDict(net) == [params |-> net.params]

\* nn.Module.load_state_dict(state_dict)
LoadStateDict(net, state_dict) == [net EXCEPT !.params = state_dict.params]

\* Trainer.save(epoch): the files of run_dir afterwards
Save(fs, epoch, enc, dec) ==
    TorchSave(TorchSave(fs, StateDict(enc), CheckpointPath(epoch, "encoderRNN")),
              StateDict(dec), CheckpointPath(epoch, "decoderRNN"))

\* Trainer.load(epoch): torch.load raises when a file is missing; otherwise
\* both networks load their saved parameters
Load(fs, epoch, enc, dec) ==
    LET saved(net) == {f \in fs : f.path = CheckpointPath(epoch, net)}
        content(net) == (CHOOSE f \in saved(net) : TRUE).content
    IN  IF saved("encoderRNN") = {} \/ saved("decoderRNN") = {}
        THEN [raised |-> TRUE, encoder |-> enc, decoder |-> dec]
        ELSE [raised |-> FALSE,
              encoder |-> LoadStateDict(enc, content("encoderRNN")),
              decoder |-> LoadStateDict(dec, content("decoderRNN"))]

\* lr_decay(optimizer, min_lr, lr_decay)
LrDecay(optimizer, minimum, decay) ==
    [optimizer EXCEPT !.param_groups =
        [k \in 1..Len(@) |->
            IF Greater(@[k].lr, minimum)
            THEN [@[k] EXCEPT !.lr = Prod(@, decay)]
            ELSE @[k]]]

\* self.eta_step = 1-(1-self.hp.eta_min)*self.hp.eta_R
EtaAfterEpoch ==
    Add([n |-> 1, d |-> 1],
        Neg(Times(Add([n |-> 1, d |-> 1], Neg(eta_min)), eta_R)))

\* The coefficient starting at 1 whether or not use_eta is set
EtaAtStart_One(use_eta) == [n |-> 1, d |-> 1]

\* self.eta_step = self.hp.eta_min if self.hp.use_eta else 1
EtaAtStart(use_eta) == IF use_eta THEN eta_min ELSE [n |-> 1, d |-> 1]

\* Lines 211-212 and 241-252 of Trainer.step for is_training = True, as one
\* operation: train(True), zero_grad, backward (which adds g to the encoder's gradient and -g to the
\* decoder's), clip_grad_norm_, and one step of each optimizer
TrainingUpdate(enc, dec, enc_opt, dec_opt, g) ==
    LET e == [enc EXCEPT !.training = TRUE, !.grad = ClipGradNorm(0 + g, grad_clip)]
        d == [dec EXCEPT !.training = TRUE, !.grad = ClipGradNorm(0 - g, grad_clip)]
        eu == OptimizerStep(e, enc_opt)
        du == OptimizerStep(d, dec_opt)
    IN  [encoder |-> eu.net, decoder |-> du.net,
         encoder_optimizer |-> eu.opt, decoder_optimizer |-> du.opt]

\* The batch the loaders yield: one sequence of two steps, its mask one step
\* shorter than its data
LoaderBatch ==
    [data_shape |-> <<1, 2, 5>>, mask_shape |-> <<1, 1>>, len |-> <<1>>,
     pen |-> 1, log_prob |-> -7, q_row |-> <<-1, -9, -9>>, kl |-> 6]

\* The learning rates hp.lr: min_lr, 1.5 * min_lr and 4 * min_lr
LearningRates == { min_lr, Prod(min_lr, [n |-> 3, d |-> 2]), Prod(min_lr, [n |-> 4, d |-> 1]) }

\* The hyper-parameters of a run
TrainHParams ==
    [epochs : 1..MaxEpochs, save_every_n_epochs : {1, 2}, lr : LearningRates,
     use_lr_decay : BOOLEAN, min_lr : {min_lr}, lr_decay : {[n |-> 1, d |-> 2]},
     use_eta : BOOLEAN]

\* Trainer.__init__(hp, use_wandb=wandb) on a training set of train_batches
\* batches; g is the gradient the data gives
NewTrainer(h, wandb, train_batches, g) ==
    /\ hp = h
    /\ use_wandb = wandb
    /\ total_steps = 0
    /\ encoder = [params |-> 0, grad |-> 0, training |-> TRUE]
    /\ decoder = [params |-> 0, grad |-> 0, training |-> TRUE]
    /\ learning_rate = h.lr
    /\ encoder_optimizer = [t |-> 0, exp_avg |-> 0, param_groups |-> <<[lr |-> learning_rate]>>]
    /\ decoder_optimizer = [t |-> 0, exp_avg |-> 0, param_groups |-> <<[lr |-> learning_rate]>>]
    /\ eta_step = EtaAtStart(h.use_eta)
    /\ trainLocals = [epoch |-> 0, idx |-> 0, steps_per_epoch |-> train_batches,
                      train_loader |-> train_batches, grad |-> g,
                      ret |-> [called |-> FALSE]]
    /\ sinkCalls = <<>>
    /\ trainEvents = <<>>
    /\ files = {}
    /\ stepPc = "idle" /\ stepArgs = <<>> /\ stepLocals = <<>>
    /\ stepEvents = <<>> /\ stepReturn = [called |-> FALSE]
    /\ LSTMUnused /\ LossUnused /\ MixtureUnused /\ DecoderUnused

InitTrain ==
    /\ \E h \in TrainHParams, wandb \in BOOLEAN, n \in 1..MaxBatches, g \in GradValues :
          NewTrainer(h, wandb, n, g)
    /\ trainPc = "for_epoch"

\* The step counter of batch idx of an epoch, counting within the epoch only
TotalSteps_WithinEpoch(idx, epoch, steps_per_epoch) == idx

\* self.total_steps = idx + epoch * steps_per_epoch
TotalSteps(idx, epoch, steps_per_epoch) == idx + epoch * steps_per_epoch

\* The checkpoint taken when the number of epochs done is a multiple
SaveDue_EpochsDone(epoch, save_every_n_epochs) == (epoch + 1) % save_every_n_epochs = 0

\* epoch % self.hp.save_every_n_epochs == 0
SaveDue(epoch, save_every_n_epochs) == epoch % save_every_n_epochs = 0

\* The metrics of a training step and of a validation pass
TrainMetrics(ret, lr, epoch) ==
    [loss |-> ret.loss, reconstruction_loss |-> ret.reconstruction_loss,
     kl_loss |-> ret.kl_loss, learning_rate |-> lr, epoch |-> epoch]

ValMetrics(ret, epoch) ==
    [val_avg_loss |-> ret.avg_loss,
     val_avg_reconstruction_loss |-> ret.avg_reconstruction_loss,
     val_avg_kl_loss |-> ret.avg_kl_loss, epoch |-> epoch]

\* total / total_items of validate_one_epoch over the batches' returns
Average(rets, field) ==
    [n |-> SumSeq([k \in 1..Len(rets) |-> rets[k][field].n * rets[k].batch_items]),
     d |-> rets[1][field].d * SumSeq([k \in 1..Len(rets) |-> rets[k].batch_items])]

\* for epoch in mb: the next epoch of range(self.hp.epochs), entering
\* train_one_epoch, or the end of the run
ForEpoch ==
    /\ trainPc = "for_epoch"
    /\ IF trainLocals.epoch < hp.epochs
       THEN /\ trainLocals' = [trainLocals EXCEPT !.idx = 0,
                                  !.steps_per_epoch = trainLocals.train_loader]
            /\ trainPc' = "for_batch"
       ELSE /\ trainPc' = "done"
            /\ UNCHANGED trainLocals
    /\ UNCHANGED <<hp, eta_step, encoder, decoder, encoder_optimizer,
                   decoder_optimizer, use_wandb, total_steps, learning_rate,
                   sinkCalls, trainEvents, files, stepPc, stepArgs, stepLocals,
                   stepEvents, stepReturn, lstmVars, lossVars, mixVars, decVars>>

\* Lines 278-280: the next batch; self.total_steps = ...; self.step(batch, True)
TrainStep ==
    /\ trainPc = "for_batch"
    /\ trainLocals.idx < trainLocals.steps_per_epoch
    /\ total_steps' = TotalSteps(trainLocals.idx, trainLocals.epoch,
                                 trainLocals.steps_per_epoch)
    /\ \E f \in {StepForward(LoaderBatch, hp.use_eta, eta_step)},
          u \in {TrainingUpdate(encoder, decoder, encoder_optimizer,
                                decoder_optimizer, trainLocals.grad)} :
          /\ encoder' = u.encoder
          /\ decoder' = u.decoder
          /\ encoder_optimizer' = u.encoder_optimizer
          /\ decoder_optimizer' = u.decoder_optimizer
          /\ trainLocals' = [trainLocals EXCEPT !.ret = f]
          /\ trainEvents' = Append(trainEvents,
                [op |-> "step", epoch |-> trainLocals.epoch,
                 total_steps |-> total_steps',
                 encoder |-> u.encoder.params, decoder |-> u.decoder.params,
                 eta |-> eta_step, kl_loss |-> f.kl_loss,
                 encoder_lr |-> encoder_optimizer.param_groups[1].lr,
                 decoder_lr |-> decoder_optimizer.param_groups[1].lr])
    /\ trainPc' = "log_train"
    /\ UNCHANGED <<hp, eta_step, use_wandb, learning_rate, sinkCalls, files,
                   stepPc, stepArgs, stepLocals, stepEvents, stepReturn,
                   lstmVars, lossVars, mixVars, decVars>>

\* Lines 281-286: self.log(dict(...)) returns; wandb.log is called only when
\* use_wandb is set
LogTrain ==
    /\ trainPc = "log_train"
    /\ sinkCalls' =
          IF use_wandb
          THEN Append(sinkCalls,
                      [kind |-> "train", step |-> total_steps, raised |-> FALSE,
                       metrics |-> TrainMetrics(trainLocals.ret, learning_rate,
                                                trainLocals.epoch)])
          ELSE sinkCalls
    /\ trainLocals' = [trainLocals EXCEPT !.idx = @ + 1]
    /\ trainPc' = "for_batch"
    /\ UNCHANGED <<hp, eta_step, encoder, decoder, encoder_optimizer,
                   decoder_optimizer, use_wandb, total_steps, learning_rate,
                   trainEvents, files, stepPc, stepArgs, stepLocals,
                   stepEvents, stepReturn, lstmVars, lossVars, mixVars, decVars>>

\* Lines 281-286 when wandb.log raises: nothing catches the exception, which
\* leaves log, train_one_epoch and train
LogTrainRaises ==
    /\ trainPc = "log_train"
    /\ use_wandb
    /\ sinkCalls' = Append(sinkCalls,
                      [kind |-> "train", step |-> total_steps, raised |-> TRUE,
                       metrics |-> TrainMetrics(trainLocals.ret, learning_rate,
                                                trainLocals.epoch)])
    /\ trainPc' = "raised"
    /\ UNCHANGED <<hp, eta_step, encoder, decoder, encoder_optimizer,
                   decoder_optimizer, use_wandb, total_steps, learning_rate,
                   trainLocals, trainEvents, files, stepPc, stepArgs, stepLocals,
                   stepEvents, stepReturn, lstmVars, lossVars, mixVars, decVars>>

\* Lines 287-293, after the last batch: the learning-rate decay and the new
\* weight of the KL loss
EndOfBatches ==
    /\ trainPc = "for_batch"
    /\ trainLocals.idx = trainLocals.steps_per_epoch
    /\ IF hp.use_lr_decay
       THEN /\ encoder_optimizer' = LrDecay(encoder_optimizer, hp.min_lr, hp.lr_decay)
            /\ decoder_optimizer' = LrDecay(decoder_optimizer, hp.min_lr, hp.lr_decay)
       ELSE UNCHANGED <<encoder_optimizer, decoder_optimizer>>
    /\ eta_step' = IF hp.use_eta THEN EtaAfterEpoch ELSE eta_step
    /\ trainPc' = "validate"
    /\ UNCHANGED <<hp, encoder, decoder, use_wandb, total_steps, learning_rate,
                   trainLocals, sinkCalls, trainEvents, files, stepPc, stepArgs,
                   stepLocals, stepEvents, stepReturn, lstmVars, lossVars,
                   mixVars, decVars>>

\* Lines 256-268 of validate_one_epoch: self.step(batch, False) on the batch of
\* the validation loader, and the averages
Validate ==
    /\ trainPc = "validate"
    /\ \E f \in {StepForward(LoaderBatch, hp.use_eta, eta_step)} :
          trainLocals' = [trainLocals EXCEPT !.ret =
              [avg_loss |-> Average(<<f>>, "loss"),
               avg_reconstruction_loss |-> Average(<<f>>, "reconstruction_loss"),
               avg_kl_loss |-> Average(<<f>>, "kl_loss")]]
    /\ encoder' = [encoder EXCEPT !.training = FALSE]
    /\ decoder' = [decoder EXCEPT !.training = FALSE]
    /\ trainEvents' = Append(trainEvents,
                             [op |-> "validate", epoch |-> trainLocals.epoch])
    /\ trainPc' = "log_val"
    /\ UNCHANGED <<hp, eta_step, encoder_optimizer, decoder_optimizer, use_wandb,
                   total_steps, learning_rate, sinkCalls, files, stepPc,
                   stepArgs, stepLocals, stepEvents, stepReturn, lstmVars,
                   lossVars, mixVars, decVars>>

\* Lines 269-274: self.log(dict(...)) returns, and so does validate_one_epoch
LogVal ==
    /\ trainPc = "log_val"
    /\ sinkCalls' =
          IF use_wandb
          THEN Append(sinkCalls,
                      [kind |-> "val", step |-> total_steps, raised |-> FALSE,
                       metrics |-> ValMetrics(trainLocals.ret, trainLocals.epoch)])
          ELSE sinkCalls
    /\ trainPc' = "checkpoint"
    /\ UNCHANGED <<hp, eta_step, encoder, decoder, encoder_optimizer,
                   decoder_optimizer, use_wandb, total_steps, learning_rate,
                   trainLocals, trainEvents, files, stepPc, stepArgs, stepLocals,
                   stepEvents, stepReturn, lstmVars, lossVars, mixVars, decVars>>

\* Lines 269-273 when wandb.log raises
LogValRaises ==
    /\ trainPc = "log_val"
    /\ use_wandb
    /\ sinkCalls' = Append(sinkCalls,
                      [kind |-> "val", step |-> total_steps, raised |-> TRUE,
                       metrics |-> ValMetrics(trainLocals.ret, trainLocals.epoch)])
    /\ trainPc' = "raised"
    /\ UNCHANGED <<hp, eta_step, encoder, decoder, encoder_optimizer,
                   decoder_optimizer, use_wandb, total_steps, learning_rate,
                   trainLocals, trainEvents, files, stepPc, stepArgs, stepLocals,
                   stepEvents, stepReturn, lstmVars, lossVars, mixVars, decVars>>

\* Lines 300-301: self.save(epoch) when the epoch is one to checkpoint
SaveCheckpoint ==
    /\ trainPc = "checkpoint"
    /\ SaveDue(trainLocals.epoch, hp.save_every_n_epochs)
    /\ files' = Save(files, trainLocals.epoch, encoder, decoder)
    /\ trainEvents' = Append(trainEvents,
                             [op |-> "save", epoch |-> trainLocals.epoch,
                              encoder |-> encoder.params, decoder |-> decoder.params])
    /\ trainPc' = "sample"
    /\ UNCHANGED <<hp, eta_step, encoder, decoder, encoder_optimizer,
                   decoder_optimizer, use_wandb, total_steps, learning_rate,
                   trainLocals, sinkCalls, stepPc, stepArgs, stepLocals,
                   stepEvents, stepReturn, lstmVars, lossVars, mixVars, decVars>>

\* Lines 302-303: self.sample(epoch), which writes images only, and the end
\* of the loop body
Sample ==
    /\ trainPc = "sample"
    /\ trainEvents' = Append(trainEvents,
                             [op |-> "sample", epoch |-> trainLocals.epoch])
    /\ trainLocals' = [trainLocals EXCEPT !.epoch = @ + 1]
    /\ trainPc' = "for_epoch"
    /\ UNCHANGED <<hp, eta_step, encoder, decoder, encoder_optimizer,
                   decoder_optimizer, use_wandb, total_steps, learning_rate,
                   sinkCalls, files, stepPc, stepArgs, stepLocals,
                   stepEvents, stepReturn, lstmVars, lossVars, mixVars, decVars>>

\* Lines 300 and 303 for an epoch that is not checkpointed
SkipCheckpoint ==
    /\ trainPc = "checkpoint"
    /\ ~SaveDue(trainLocals.epoch, hp.save_every_n_epochs)
    /\ trainLocals' = [trainLocals EXCEPT !.epoch = @ + 1]
    /\ trainPc' = "for_epoch"
    /\ UNCHANGED <<hp, eta_step, encoder, decoder, encoder_optimizer,
                   decoder_optimizer, use_wandb, total_steps, learning_rate,
                   sinkCalls, trainEvents, files, stepPc, stepArgs, stepLocals,
                   stepEvents, stepReturn, lstmVars, lossVars, mixVars, decVars>>

NextTrain ==
    \/ ForEpoch
    \/ TrainStep
    \/ LogTrain
    \/ LogTrainRaises
    \/ EndOfBatches
    \/ Validate
    \/ LogVal
    \/ LogValRaises
    \/ SaveCheckpoint
    \/ Sample
    \/ SkipCheckpoint

SpecTrain == InitTrain /\ [][NextTrain]_vars

-----------------------------------------------------------------------------
(* trainer.py: Trainer.save and Trainer.load, called between training steps *)

\* The epochs passed to save and load: one, two and six digits long
CheckpointEpochs == {0, 10, 100000}

InitCheckpoint ==
    /\ \E h \in TrainHParams, g \in GradValues :
          /\ h.epochs = 1 /\ h.save_every_n_epochs = 1 /\ h.lr = min_lr
          /\ ~h.use_lr_decay /\ ~h.use_eta
          /\ NewTrainer(h, FALSE, 1, g)
    /\ trainPc = "none"

\* trainer.step(batch, is_training=True)
CallStep ==
    /\ Len(trainEvents) < MaxCheckpointOps
    /\ encoder_optimizer.t < MaxTrainSteps
    /\ \E f \in {StepForward(LoaderBatch, hp.use_eta, eta_step)},
          u \in {TrainingUpdate(encoder, decoder, encoder_optimizer,
                                decoder_optimizer, trainLocals.grad)} :
          /\ encoder' = u.encoder
          /\ decoder' = u.decoder
          /\ encoder_optimizer' = u.encoder_optimizer
          /\ decoder_optimizer' = u.decoder_optimizer
          /\ trainLocals' = [trainLocals EXCEPT !.ret = f]
          /\ trainEvents' = Append(trainEvents,
                [op |-> "step", epoch |-> trainLocals.epoch,
                 total_steps |-> total_steps,
                 encoder |-> u.encoder.params, decoder |-> u.decoder.params,
                 eta |-> eta_step, kl_loss |-> f.kl_loss,
                 encoder_lr |-> encoder_optimizer.param_groups[1].lr,
                 decoder_lr |-> decoder_optimizer.param_groups[1].lr])
    /\ UNCHANGED <<hp, eta_step, use_wandb, total_steps, learning_rate, trainPc,
                   sinkCalls, files, stepPc, stepArgs, stepLocals, stepEvents,
                   stepReturn, lstmVars, lossVars, mixVars, decVars>>

\* trainer.save(epoch)
CallSave ==
    /\ Len(trainEvents) < MaxCheckpointOps
    /\ \E epoch \in CheckpointEpochs :
          /\ files' = Save(files, epoch, encoder, decoder)
          /\ trainEvents' = Append(trainEvents,
                [op |-> "save", epoch |-> epoch,
                 encoder |-> encoder.params, decoder |-> decoder.params])
    /\ UNCHANGED <<hp, eta_step, encoder, decoder, encoder_optimizer,
                   decoder_optimizer, use_wandb, total_steps, learning_rate,
                   trainPc, trainLocals, sinkCalls, stepPc, stepArgs, stepLocals,
                   stepEvents, stepReturn, lstmVars, lossVars, mixVars, decVars>>

\* trainer.load(epoch)
CallLoad ==
    /\ Len(trainEvents) < MaxCheckpointOps
    /\ \E epoch \in CheckpointEpochs :
       \E r \in {Load(files, epoch, encoder, decoder)} :
          /\ encoder' = r.encoder
          /\ decoder' = r.decoder
          /\ trainEvents' = Append(trainEvents,
                [op |-> "load", epoch |-> epoch, raised |-> r.raised,
                 encoder |-> r.encoder.params, decoder |-> r.decoder.params])
    /\ UNCHANGED <<hp, eta_step, encoder_optimizer, decoder_optimizer, use_wandb,
                   total_steps, learning_rate, trainPc, trainLocals, sinkCalls,
                   files, stepPc, stepArgs, stepLocals, stepEvents, stepReturn,
                   lstmVars, lossVars, mixVars, decVars>>

NextCheckpoint ==
    \/ CallStep
    \/ CallSave
    \/ CallLoad

SpecCheckpoint == InitCheckpoint /\ [][NextCheckpoint]_vars

-----------------------------------------------------------------------------
(* Properties of the sequence runners, under SpecLSTM                      *)

\* C1: the final state BidirLSTMLayer.forward returns is (H, C) with
\* H = [forward hidden, reverse hidden] and C = [forward memory, reverse
\* memory]: index 0 of each is the forward direction's, index 1 the reverse's.
C1_StateStackedByDirection ==
    lstmOp = "BidirLSTMLayer" =>
        LET fwd == LSTMLayer(cellW[1], lstmInput, lstmStates[1])
            rev == ReverseLSTMLayer(cellW[2], lstmInput, lstmStates[2])
        IN  /\ bidirOutState[1] = <<fwd.state[1], rev.state[1]>>
            /\ bidirOutState[2] = <<fwd.state[2], rev.state[2]>>

\* C9: ReverseLSTMLayer(x, s) returns the reversal of the outputs of
\* LSTMLayer(reverse(x), s) with the same weights, and the same final state; the
\* output at index t is the cell output of the call that consumed x[t].
C9_ReverseRunner ==
    lstmOp = "ReverseLSTMLayer" =>
        LET T == Len(lstmInput)
            f == LSTMLayer(cellW[2], reverse(lstmInput), lstmStates[2])
        IN  /\ lstmOutputs = reverse(f.outputs)
            /\ lstmOutState = f.state
            /\ Len(lstmOutputs) = T
            /\ Len(cellCalls) = T
            /\ \A t \in 1..T :
                  /\ cellCalls[T + 1 - t].input = lstmInput[t]
                  /\ lstmOutputs[t] =
                        LSTMCell(cellW[2], lstmInput[t], cellCalls[T + 1 - t].state).out

\* A reverse run of two or more steps whose outputs are not a palindrome, on an
\* input that is not one either.
C9_Witness ==
    /\ lstmOp = "ReverseLSTMLayer"
    /\ Len(lstmInput) >= 2
    /\ lstmInput # reverse(lstmInput)
    /\ lstmOutputs # reverse(lstmOutputs)

\* C10: LSTMLayer.forward on T steps calls the cell T times, call t with x[t]
\* and the state call t-1 returned (the caller's state for the first); it returns
\* the T cell outputs in step order and the last call's state, and output t is
\* the same whatever follows x[t] in the input.
C10_ForwardRunner ==
    lstmOp = "LSTMLayer" =>
        LET T == Len(lstmInput)
            w == cellW[1]
            ret(t) == LSTMCell(w, cellCalls[t].input, cellCalls[t].state)
        IN  /\ Len(cellCalls) = T
            /\ Len(lstmOutputs) = T
            /\ \A t \in 1..T :
                  /\ cellCalls[t].input = lstmInput[t]
                  /\ cellCalls[t].state =
                        IF t = 1 THEN lstmStates[1] ELSE ret(t - 1).state
                  /\ lstmOutputs[t] = ret(t).out
                  /\ LSTMLayer(w, SubSeq(lstmInput, 1, t), lstmStates[1]).outputs
                        = SubSeq(lstmOutputs, 1, t)
            /\ lstmOutState = ret(T).state

\* A forward run whose first two inputs are equal and whose first two outputs
\* differ: the second call ran on the state the first one returned.
C10_Witness ==
    /\ lstmOp = "LSTMLayer"
    /\ Len(lstmInput) >= 2
    /\ lstmInput[1] = lstmInput[2]
    /\ lstmOutputs[1] # lstmOutputs[2]

-----------------------------------------------------------------------------
(* Properties of ReconstructionLoss, under SpecLoss                        *)

\* The sum of f over the finite set S
RECURSIVE SumOver(_, _)
SumOver(f, S) ==
    IF S = {} THEN 0
    ELSE LET x == CHOOSE y \in S : TRUE IN f[x] + SumOver(f, S \ {x})

\* The (time step, batch element) positions of a [T, B] tensor
Positions(t) == (1..Len(t)) \X (1..Len(t[1]))

\* C4: loss_pen is minus the sum over all positions of sum_k target_pk * log_q_k,
\* divided by the number of positions T * B, not by T * B * 3.
C4_PenLossOverPositions ==
    (lossOut.called /\ ~lossOut.raised) =>
        Same(lossOut.loss_pen,
             [n |-> -SumOver([p \in Positions(lossPen) |->
                                 SumSeq([k \in 1..3 |->
                                     lossPen[p[1]][p[2]][k] * lossQ[p[1]][p[2]][k]])],
                             Positions(lossPen)),
              d |-> Len(lossPen) * Len(lossPen[1])])

\* C6: loss_stroke is minus the sum over all positions of mask * log(1e-5 + p),
\* divided by the number of all positions, masked-out ones included; so when the
\* last step of a T-step batch is masked out everywhere, the loss is (T-1)/T of
\* the loss of the batch without that step: half of it for T = 2.
C6_StrokeLossOverAllPositions ==
    (lossOut.called /\ ~lossOut.raised) =>
        LET T == Len(lossMask)
            B == Len(lossMask[1])
        IN  /\ lossOut.loss_stroke.d = T * B
            /\ lossOut.loss_stroke.n =
                  -SumOver([p \in Positions(lossMask) |->
                               lossMask[p[1]][p[2]] * lossLog[p[1]][p[2]]],
                           Positions(lossMask))
            /\ (T >= 2 /\ \A b \in 1..B : lossMask[T][b] = 0) =>
                  Same(Times(lossOut.loss_stroke, [n |-> T, d |-> T - 1]),
                       LossStroke(SubSeq(lossMask, 1, T - 1), SubSeq(lossLog, 1, T - 1)))

\* A 2-step sequence whose only valid step is step 1: its loss is not zero and
\* differs from the loss of the 1-step sequence with the same valid data.
C6_Witness ==
    /\ lossOut.called
    /\ ~lossOut.raised
    /\ lossMask = <<<<1>>, <<0>>>>
    /\ lossOut.loss_stroke.n # 0
    /\ ~Same(lossOut.loss_stroke, LossStroke(<<lossMask[1]>>, <<lossLog[1]>>))

-----------------------------------------------------------------------------
(* Properties of Trainer.step, under Spec                                  *)

\* Trainer.step has returned its four values
Returned == stepReturn.called /\ ~stepReturn.raised

\* C2: for a batch of B sequences padded to length T, the fourth value
\* Trainer.step returns is the batch size B.
C2_ReturnsBatchSize ==
    Returned => stepReturn.batch_items = stepArgs.batch.data_shape[1]

\* C3 as stated: the total loss returned is reconstruction_loss + kl_loss, with
\* no other weight on either term.
C3_TotalIsPlainSum ==
    Returned =>
        Same(stepReturn.loss, Add(stepReturn.reconstruction_loss, stepReturn.kl_loss))

\* C3: the total loss returned is reconstruction_loss + 0.5 * kl_loss, where the
\* kl_loss returned is the KL divergence, multiplied by eta_step when use_eta.
C3_TotalIsWeightedSum ==
    Returned =>
        /\ Same(Times([n |-> 2, d |-> 1], stepReturn.loss),
                Add(Times([n |-> 2, d |-> 1], stepReturn.reconstruction_loss),
                    stepReturn.kl_loss))
        /\ Same(stepReturn.kl_loss,
                IF hp.use_eta
                THEN Times([n |-> stepArgs.batch.kl, d |-> 1], eta_step)
                ELSE [n |-> stepArgs.batch.kl, d |-> 1])

\* A step with use_eta that returned a KL loss other than zero
C3_Witness ==
    /\ Returned
    /\ hp.use_eta
    /\ stepReturn.kl_loss.n # 0

\* C5: for a batch whose data is [T, B, 5] and whose mask is [T, B], with the
\* same T >= 2, Trainer.step computes the loss and raises no shape violation.
C5_NoShapeViolation ==
    (/\ stepReturn.called
     /\ stepArgs.batch.data_shape[2] >= 2
     /\ stepArgs.batch.mask_shape = SubSeq(stepArgs.batch.data_shape, 1, 2))
        => ~stepReturn.raised

\* C7: a step with is_training = False changes neither the parameters nor the
\* gradients of the encoder and the decoder, nor the state of the optimizers,
\* and executes none of the statements of the update.
C7_EvalStepChangesNothing ==
    [][stepArgs'.is_training = FALSE =>
          /\ encoder'.params = encoder.params
          /\ encoder'.grad = encoder.grad
          /\ decoder'.params = decoder.params
          /\ decoder'.grad = decoder.grad
          /\ encoder_optimizer' = encoder_optimizer
          /\ decoder_optimizer' = decoder_optimizer
          /\ stepEvents' = <<>>]_vars

\* An evaluation step that returned after a training step had updated the
\* parameters and left gradients behind
C7_Witness ==
    /\ Returned
    /\ stepArgs.is_training = FALSE
    /\ encoder_optimizer.t >= 1
    /\ encoder.params # 0
    /\ encoder.grad # 0

\* The statements of the update, in the order of lines 243-252
UpdateOrder ==
    <<"zero_grad_encoder", "zero_grad_decoder", "backward", "clip_encoder",
      "clip_decoder", "step_encoder", "step_decoder">>

\* C8: a training step zeroes both gradients, then backpropagates, then clips
\* the encoder's and the decoder's gradient to grad_clip, then steps each
\* optimizer once; an optimizer is only ever stepped on a clipped gradient.
C8_UpdateOrder ==
    /\ Len(stepEvents) <= Len(UpdateOrder)
    /\ stepEvents = SubSeq(UpdateOrder, 1, Len(stepEvents))
    /\ (Returned /\ stepArgs.is_training) => stepEvents = UpdateOrder
    /\ encoder_optimizer.exp_avg \in (-grad_clip)..grad_clip
    /\ decoder_optimizer.exp_avg \in (-grad_clip)..grad_clip

\* A training step that returned, in which clipping cut the encoder's gradient
C8_Witness ==
    /\ Returned
    /\ stepArgs.is_training
    /\ stepEvents = UpdateOrder
    /\ encoder_optimizer.exp_avg = -grad_clip
    /\ encoder_optimizer.t = 1

-----------------------------------------------------------------------------
(* Properties of BivariateGaussianMixture, under SpecMixture               *)

\* The product of a sequence of fractions
RECURSIVE ProdSeq(_)
ProdSeq(s) == IF s = <<>> THEN [n |-> 1, d |-> 1] ELSE Prod(Head(s), ProdSeq(Tail(s)))

\* m[1][1] * m[2][2] - m[1][2] * m[2][1] > 0, for a 2x2 matrix m with m[2][2] > 0
DetPositive(m) ==
    IF m[1][2].n = 0 THEN Prod(m[1][1], m[2][2]).n > Prod(m[1][2], m[2][1]).n
    ELSE IF m[1][2].n > 0
    THEN Greater(Quot(m[1][1], m[1][2]), Quot(m[2][1], m[2][2]))
    ELSE Greater(Quot(m[2][1], m[2][2]), Quot(m[1][1], m[1][2]))

\* C11: after set_temperature(t1), ..., set_temperature(tn) the mixture's
\* pi_logits are the original ones divided by t1 * ... * tn, its sigma_x and
\* sigma_y the original ones multiplied by sqrt(t1) * ... * sqrt(tn), and mu_x,
\* mu_y and rho_xy the original ones; the mixture still holds the tensors it was
\* given, so the change is in place; and calls with temperature 1.0 only leave
\* every parameter as it was.
C11_TemperatureScaling ==
    LET t == ProdSeq(mixTemps)
        r == ProdSeq([k \in 1..Len(mixTemps) |-> Sqrt(mixTemps[k])])
        now(a) == TensorRead(mixStorage, mix[a])
        orig(a) == TensorRead(mixOrig.storage, mixOrig.self[a])
    IN  /\ mix = mixOrig.self
        /\ \A i \in 1..Len(orig("pi_logits")) :
              now("pi_logits")[i] = Quot(orig("pi_logits")[i], t)
        /\ \A i \in 1..Len(orig("sigma_x")) :
              now("sigma_x")[i] = Prod(orig("sigma_x")[i], r)
        /\ \A i \in 1..Len(orig("sigma_y")) :
              now("sigma_y")[i] = Prod(orig("sigma_y")[i], r)
        /\ now("mu_x") = orig("mu_x")
        /\ now("mu_y") = orig("mu_y")
        /\ now("rho_xy") = orig("rho_xy")
        /\ (\A k \in 1..Len(mixTemps) : mixTemps[k] = [n |-> 1, d |-> 1])
              => mixStorage = mixOrig.storage

\* Two calls with temperatures other than 1.0 whose product is not 1.0 either,
\* on a mixture with a logit and standard deviations other than zero
C11_Witness ==
    /\ mixOp = "set_temperature"
    /\ Len(mixTemps) = 2
    /\ mixTemps[1] = [n |-> 4, d |-> 1]
    /\ mixTemps[2] = [n |-> 4, d |-> 1]
    /\ TensorRead(mixStorage, mix.pi_logits) # TensorRead(mixOrig.storage, mix.pi_logits)
    /\ TensorRead(mixStorage, mix.sigma_x)[1].n # 0
    /\ TensorRead(mixStorage, mix.sigma_y)[1].n # 0

\* C12: every covariance matrix get_distribution builds is
\* [[sx^2, r*sx*sy], [r*sx*sy, sy^2]] where sx and sy are the stored standard
\* deviations raised to the floor 1e-5 and r is the stored correlation brought
\* into [-1 + 1e-5, 1 - 1e-5]; it is symmetric, its diagonal is positive and
\* its determinant is positive.
C12_CovariancePositiveDefinite ==
    mixOp = "get_distribution" =>
        \A i \in 1..mix.sigma_y.size :
            LET cov == mixDist.dist.cov[i]
                sx == mixDist.dist.sigma_x[i]
                sy == mixDist.dist.sigma_y[i]
                r == mixDist.dist.rho_xy[i]
                stored(a) == TensorRead(mixStorage, mix[a])[i]
            IN  /\ ~Less(sx, sigma_floor) /\ ~Less(sx, stored("sigma_x"))
                /\ sx \in {sigma_floor, stored("sigma_x")}
                /\ ~Less(sy, sigma_floor) /\ ~Less(sy, stored("sigma_y"))
                /\ sy \in {sigma_floor, stored("sigma_y")}
                /\ ~Less(r, Neg(rho_bound)) /\ ~Less(rho_bound, r)
                /\ r \in {Neg(rho_bound), rho_bound, stored("rho_xy")}
                /\ cov[1][1] = Prod(sx, sx)
                /\ cov[2][2] = Prod(sy, sy)
                /\ cov[1][2] = Prod(r, Prod(sx, sy))
                /\ cov[2][1] = cov[1][2]
                /\ cov[1][1].n > 0
                /\ cov[2][2].n > 0
                /\ DetPositive(cov)

\* get_distribution on a mixture that stores a negative sigma_x, a zero sigma_y
\* and the correlations +1 and -1
C12_Witness ==
    /\ mixOp = "get_distribution"
    /\ TensorRead(mixStorage, mix.sigma_x)[1].n < 0
    /\ TensorRead(mixStorage, mix.sigma_y)[2].n = 0
    /\ TensorRead(mixStorage, mix.rho_xy) = Whole(<<1, -1>>)
    /\ mixDist.dist.rho_xy = <<rho_bound, Neg(rho_bound)>>

-----------------------------------------------------------------------------
(* Properties of DecoderRNN, under SpecDecoder                              *)

\* C16: decoding T steps in one forward call with state = None gives, step for
\* step, the mixture parameters and pen log-probabilities of T one-step calls
\* that pass None first and then the state the previous call returned, and the
\* same final state; a call runs its LSTM from the state derived from z exactly
\* when its state argument is None, and from the supplied state otherwise.
C16_StepwiseDecoding ==
    /\ decFull.called =>
          /\ Len(decFull.ret.dist) = Len(decX)
          /\ decFull.ret.calls[1].state = InitialState(decW, decZ)
    /\ \A t \in 1..Len(decSteps) :
          /\ decSteps[t].state.none <=> t = 1
          /\ decSteps[t].ret.calls[1].state =
                IF t = 1 THEN InitialState(decW, decZ)
                ELSE <<decSteps[t].state.h, decSteps[t].state.c>>
          /\ decFull.called =>
                /\ decSteps[t].ret.dist[1] = decFull.ret.dist[t]
                /\ decSteps[t].ret.q_logits[1] = decFull.ret.q_logits[t]
    /\ (decFull.called /\ Len(decSteps) = Len(decX)) =>
          decSteps[Len(decX)].ret.state = decFull.ret.state

\* Both ways of decoding done on three steps, the state passed to the second
\* and to the third call being other than the state derived from z, and the
\* outputs of the last two steps differing
C16_Witness ==
    /\ decFull.called
    /\ Len(decX) = 3
    /\ Len(decSteps) = 3
    /\ <<decSteps[2].state.h, decSteps[2].state.c>> # InitialState(decW, decZ)
    /\ <<decSteps[3].state.h, decSteps[3].state.c>> # InitialState(decW, decZ)
    /\ decFull.ret.dist[2] # decFull.ret.dist[3]
    /\ decFull.ret.q_logits[2] # decFull.ret.q_logits[3]

-----------------------------------------------------------------------------
(* Properties of Trainer.train, under SpecTrain                            *)

\* The calls wandb.log received for training steps, and the training steps done
TrainCalls == SelectSeq(sinkCalls, LAMBDA c : c.kind = "train")
StepEvents == SelectSeq(trainEvents, LAMBDA e : e.op = "step")

\* a = b for fractions that need not be in lowest terms
Equal(a, b) == ~Greater(a, b) /\ ~Greater(b, a)

\* C13: a failure of the metrics sink does not stop the run: when wandb.log has
\* raised in a training step's log call or in the validation log call, the run
\* is not ended by that exception and goes on to its remaining steps and epochs.
C13_SinkFailureDoesNotBlock ==
    (\E k \in 1..Len(sinkCalls) : sinkCalls[k].raised) => trainPc # "raised"

\* C14: the step given to wandb.log never decreases from one call to the next;
\* it grows by exactly 1 between consecutive training-step calls, also from the
\* last step of an epoch to the first of the next; and a validation call gives
\* the step of the last training step of its epoch.
C14_StepCounterMonotonic ==
    /\ \A k \in 2..Len(sinkCalls) : sinkCalls[k].step >= sinkCalls[k - 1].step
    /\ \A k \in 2..Len(TrainCalls) : TrainCalls[k].step = TrainCalls[k - 1].step + 1
    /\ \A k \in 1..Len(sinkCalls) :
          sinkCalls[k].kind = "val" =>
              /\ k > 1
              /\ sinkCalls[k - 1].kind = "train"
              /\ sinkCalls[k - 1].metrics.epoch = sinkCalls[k].metrics.epoch
              /\ sinkCalls[k - 1].step = sinkCalls[k].step

\* A run of three epochs of two batches that has logged all of them
C14_Witness ==
    /\ trainPc = "done"
    /\ use_wandb
    /\ trainLocals.steps_per_epoch = 2
    /\ Len(TrainCalls) = 6
    /\ TrainCalls[6].step = 5
    /\ Len(sinkCalls) = 9

C18_LearningRateNotBelowMin ==
    (hp.use_lr_decay /\ ~Less(hp.lr, hp.min_lr)) =>
        /\ \A g \in 1..Len(encoder_optimizer.param_groups) :
              ~Less(encoder_optimizer.param_groups[g].lr, hp.min_lr)
        /\ \A g \in 1..Len(decoder_optimizer.param_groups) :
              ~Less(decoder_optimizer.param_groups[g].lr, hp.min_lr)

\* C19: the learning_rate sent to wandb.log for a training step is the learning
\* rate the encoder's and the decoder's optimizer used in that step.
C19_LoggedLearningRate ==
    \A k \in 1..Len(TrainCalls) :
        \A j \in 1..Len(StepEvents) :
            StepEvents[j].total_steps = TrainCalls[k].step =>
                /\ TrainCalls[k].metrics.learning_rate = StepEvents[j].encoder_lr
                /\ TrainCalls[k].metrics.learning_rate = StepEvents[j].decoder_lr

\* The operations of a whole run, from epoch e on: the training steps of each
\* epoch, its validation and, when e % save_every_n_epochs = 0, save and sample
RECURSIVE RunFrom(_, _, _, _)
RunFrom(e, epochs, steps_per_epoch, save_every_n_epochs) ==
    IF e >= epochs THEN <<>>
    ELSE [k \in 1..steps_per_epoch |-> <<"step", e>>]
         \o << <<"validate", e>> >>
         \o (IF e % save_every_n_epochs = 0
             THEN << <<"save", e>>, <<"sample", e>> >> ELSE <<>>)
         \o RunFrom(e + 1, epochs, steps_per_epoch, save_every_n_epochs)

-----------------------------------------------------------------------------
(* Properties of Trainer.save and Trainer.load, under SpecCheckpoint        *)

\* The calls save(epoch) among the first k operations, by their position
SavesBefore(k, epoch) ==
    {j \in 1..(k - 1) : trainEvents[j].op = "save" /\ trainEvents[j].epoch = epoch}

LastOf(S) == CHOOSE j \in S : \A i \in S : i <= j

\* C15: load(e) gives the encoder and the decoder the parameters they had at
\* the last save(e), whatever training steps and saves of other epochs came in
\* between; the files of an epoch hold what the last save of that epoch wrote,
\* so saves of different epochs never overwrite one another.
C15_CheckpointsKeyedByEpoch ==
    /\ \A k \in 1..Len(trainEvents) :
          trainEvents[k].op = "load" =>
              LET saves == SavesBefore(k, trainEvents[k].epoch)
              IN  /\ trainEvents[k].raised <=> saves = {}
                  /\ saves # {} =>
                        /\ trainEvents[k].encoder = trainEvents[LastOf(saves)].encoder
                        /\ trainEvents[k].decoder = trainEvents[LastOf(saves)].decoder
    /\ \A epoch \in CheckpointEpochs :
          LET saves == SavesBefore(Len(trainEvents) + 1, epoch)
          IN  saves # {} =>
                 /\ [path |-> CheckpointPath(epoch, "encoderRNN"),
                     content |-> [params |-> trainEvents[LastOf(saves)].encoder]]
                       \in files
                 /\ [path |-> CheckpointPath(epoch, "decoderRNN"),
                     content |-> [params |-> trainEvents[LastOf(saves)].decoder]]
                       \in files

\* save(0), a training step, save(10), another training step, then load(0): the
\* parameters are back to those of the first save, which the later ones differ from
C15_Witness ==
    /\ Len(trainEvents) = 5
    /\ trainEvents[1].op = "save" /\ trainEvents[1].epoch = 0
    /\ trainEvents[2].op = "step"
    /\ trainEvents[3].op = "save" /\ trainEvents[3].epoch = 10
    /\ trainEvents[4].op = "step"
    /\ trainEvents[5].op = "load" /\ trainEvents[5].epoch = 0
    /\ encoder.params = trainEvents[1].encoder
    /\ decoder.params = trainEvents[1].decoder
    /\ encoder.params # trainEvents[3].encoder
    /\ encoder.params # trainEvents[4].encoder

====
